---- MODULE Spec2Model ----
(***************************************************************************)
(* emailToTaskDev: the React Converter page (handleSubmit, the tab effect), *)
(* the hooks useTasks / useCalendarEvents / useAuth, the legacy page script *)
(* (emailProcessor.fetch and the fetchForm submit handler, in its two       *)
(* versions), the backend's fetch-emails pipeline with its processed       *)
(* store, and the setup script.  The backend and the hook useFetchEmails    *)
(* are not among the sources; they are modelled from the specification and  *)
(* marked so.                                                               *)
(***************************************************************************)
EXTENDS Integers, Sequences, FiniteSets, TLC

\* ------------------------------------------------------------------ bounds
MaxMsg == 2        \* message ids the mailbox can hold: 1..MaxMsg
MaxCalls == 2      \* operations invoked in one behaviour (all kinds together)
MaxRaceCalls == 3  \* the same, where loads and deletes of useTasks overlap
MaxPrompts == 2    \* answers the setup script reads again after one it rejects

Msgs == 1..MaxMsg

\* ------------------------------------------------------- JavaScript values
\* A form value as JavaScript sees it: undefined, a number, a string or NaN.
Undef == [t |-> "undefined", n |-> 0, s |-> ""]
NaN == [t |-> "NaN", n |-> 0, s |-> ""]
Num(k) == [t |-> "number", n |-> k, s |-> ""]
Str(x) == [t |-> "string", n |-> 0, s |-> x]

\* JavaScript truthiness: undefined, 0, NaN and '' are falsy.
Truthy(v) ==
    CASE v.t = "undefined" -> FALSE
      [] v.t = "NaN" -> FALSE
      [] v.t = "number" -> v.n # 0
      [] v.t = "string" -> v.s # ""

\* Number(v) on the values a form field can hold.
ToNumber(v) ==
    CASE v.t = "undefined" -> NaN
      [] v.t = "NaN" -> NaN
      [] v.t = "number" -> v
      [] v.t = "string" ->
            CASE v.s = "" -> Num(0)
              [] v.s = "0" -> Num(0)
              [] v.s = "5" -> Num(5)
              [] v.s = "24" -> Num(24)
              [] OTHER -> NaN

NULL == "null"

\* ------------------------------------------------------------ sequences
Range(q) == {q[i] : i \in DOMAIN q}
CountIn(q, x) == Cardinality({i \in DOMAIN q : q[i] = x})

RECURSIVE SetToSeq(_)
\* The elements of a finite set of numbers in ascending order.
SetToSeq(S) ==
    IF S = {} THEN <<>>
    ELSE LET m == CHOOSE x \in S : \A y \in S : x <= y
         IN <<m>> \o SetToSeq(S \ {m})

\* A filter that takes the id for a position: prev.filter((x, i) => i !== id).
FilterOutAt(q, id) ==
    LET keep == {i \in DOMAIN q : i # id}
        pos == SetToSeq(keep)
    IN [k \in 1..Len(pos) |-> q[pos[k]]]

\* prev.filter(x => x.id !== id)
FilterOut(q, id) == SelectSeq(q, LAMBDA x : x # id)

VARIABLES
    \* backend (modelled from the specification)
    processedStore,     \* processed.json: the recorded message ids, in order
    serverTasks,        \* tasks created, by the id of the message each came from
    serverEvents,       \* calendar events created, likewise
    \* Converter page
    authenticated,      \* the page's prop
    tabValue,
    showSnackbar, snackbarSeverity, snackbarMessage,
    formData,
    \* useFetchEmails
    fetchLoading, fetchPending,
    \* useTasks
    tasks, tasksLoading, tasksError, tasksPending, deletePending,
    \* useCalendarEvents
    events, eventsLoading, eventsError, eventsPending, deleteEventPending,
    \* useAuth
    authState, authLoading, authPending, authReturned,
    \* legacy page script
    script, fetchBtnDisabled, page, epPending, epResponse, epResult,
    \* bookkeeping of invocations and of the requests they issued
    calls, requests, callLimit,
    \* how the hook call that settled last ended: it returned, or it threw err
    lastSettled,
    \* the response the most recently issued call of an operation has got, if any
    latest,
    \* the ids of the tasks whose deleteTask has succeeded
    deleted,
    \* the machine the setup script runs on: commands and files that exist
    python3, pip3, requirementsTxt, clientSecretJson,
    \* the setup script: the step it is at, whether the dependencies were
    \* installed, the prompts it has repeated, $yn, $TODOIST_TOKEN, the .env file
    \* it wrote (<<>> when it wrote none) and its exit status (<<>> while it runs)
    shPc, installed, prompts, yn, TODOIST_TOKEN, envFile, exitStatus

serverVars == <<processedStore, serverTasks, serverEvents>>
snackVars == <<showSnackbar, snackbarSeverity, snackbarMessage>>
fetchVars == <<fetchLoading, fetchPending>>
tasksVars == <<tasks, tasksLoading, tasksError, tasksPending, deletePending>>
eventsVars == <<events, eventsLoading, eventsError, eventsPending, deleteEventPending>>
authVars == <<authState, authLoading, authPending, authReturned>>
legacyVars == <<script, fetchBtnDisabled, page, epPending, epResponse, epResult>>
machineVars == <<python3, pip3, requirementsTxt, clientSecretJson>>
readVars == <<yn, TODOIST_TOKEN>>
setupVars == <<machineVars, shPc, installed, prompts, readVars, envFile, exitStatus>>
invVars == <<calls, requests, callLimit, setupVars>>
histVars == <<lastSettled, latest, deleted>>
countVars == <<invVars, histVars>>
pageVars == <<authenticated, tabValue, formData>>

vars == <<serverVars, snackVars, fetchVars, tasksVars, eventsVars, authVars,
          legacyVars, countVars, pageVars>>

Ops == {"fetchEmails", "loadTasks", "loadEvents", "deleteTask", "deleteEvent",
        "checkAuth", "emailProcessor.fetch"}

RECURSIVE SumOver(_, _)
SumOver(f, S) ==
    IF S = {} THEN 0
    ELSE LET x == CHOOSE y \in S : TRUE IN f[x] + SumOver(f, S \ {x})

\* The bound on the invocations of one behaviour.
CanCall == SumOver(calls, Ops) < callLimit

\* An invocation of op that issues its request.
Invoke(op) ==
    /\ calls' = [calls EXCEPT ![op] = @ + 1]
    /\ requests' = [requests EXCEPT ![op] = @ + 1]
    /\ latest' = [latest EXCEPT ![op] = <<>>]
    /\ UNCHANGED <<callLimit, setupVars, lastSettled, deleted>>

NoError == [isError |-> FALSE, message |-> "none"]

\* The async function op runs to its end: return.
Returns(op) ==
    /\ lastSettled' = [op |-> op, threw |-> FALSE, err |-> NoError]
    /\ UNCHANGED <<latest, deleted>>

\* The load r returns the list it was answered with: return data.tasks.
ReturnsData(op, r) ==
    /\ lastSettled' = [op |-> op, threw |-> FALSE, err |-> NoError]
    /\ latest' = IF r.id = calls[op] THEN [latest EXCEPT ![op] = <<r.data>>] ELSE latest
    /\ UNCHANGED deleted

\* deleteTask(item) runs to its end.
ReturnsDeleted(item) ==
    /\ lastSettled' = [op |-> "deleteTask", threw |-> FALSE, err |-> NoError]
    /\ deleted' = deleted \cup {item}
    /\ UNCHANGED latest

\* The async function op ends by throwing e to its caller: throw err.
Throws(op, e) ==
    /\ lastSettled' = [op |-> op, threw |-> TRUE, err |-> e]
    /\ UNCHANGED <<latest, deleted>>


\* ------------------------------------------------- backend: fetch-emails
\* A lookup that compares with the newest record only.
InStoreLastOnly(store, m) == Len(store) > 0 /\ store[Len(store)] = m

\* Whether message m is recorded in the processed store.
InStore(store, m) == \E i \in DOMAIN store : store[i] = m

\* A pipeline that processes whatever was fetched.
NewIdsAll(store, F) == F

\* The fetched messages that are not yet recorded: only these are processed.
NewIds(store, F) == {m \in F : ~InStore(store, m)}

\* The fetched messages that are already recorded: these are skipped.
AlreadyIds(store, F) == {m \in F : InStore(store, m)}

\* A ProcessedEmailRecord is appended for every message just processed.
RecordProcessed(store, ids) == store \o SetToSeq(ids)

\* The JSON body of /api/fetch-emails.
FetchResponse(store, F, E) ==
    [processed |-> Cardinality(NewIds(store, F)),
     already_processed |-> Cardinality(AlreadyIds(store, F)),
     calendar_events |-> Cardinality(E)]

NoResponse == [processed |-> 0, already_processed |-> 0, calendar_events |-> 0]

\* The backend handles fetch request r: Gmail returns the messages F, of which
\* those in E carry meeting information.
apiFetchEmails(r, F, E) ==
    /\ r \in fetchPending
    /\ r.phase = "sent"
    /\ E \subseteq NewIds(processedStore, F)
    /\ processedStore' = RecordProcessed(processedStore, NewIds(processedStore, F))
    /\ serverTasks' = serverTasks \o SetToSeq(NewIds(processedStore, F))
    /\ serverEvents' = serverEvents \o SetToSeq(E)
    /\ fetchPending' = (fetchPending \ {r}) \cup
           {[r EXCEPT !.phase = "answered",
                      !.resp = FetchResponse(processedStore, F, E)]}
    /\ UNCHANGED <<snackVars, fetchLoading, tasksVars, eventsVars, authVars,
                   legacyVars, countVars, pageVars>>

\* ------------------------------------------------------ rejected promises
\* What a failed request throws: an Error with a message, or something else.
Errors == {[isError |-> TRUE, message |-> "Network Error"],
           [isError |-> FALSE, message |-> ""]}

\* err instanceof Error ? err.message : fallback
ErrMessage(e, fallback) == IF e.isError THEN e.message ELSE fallback

\* -------------------------------------------------------- Converter page
FormInputs ==
    {[provider |-> "google_tasks", max |-> Undef, since_hours |-> Undef, dry_run |-> FALSE],
     [provider |-> "todoist", max |-> Num(5), since_hours |-> Str("24"), dry_run |-> FALSE],
     [provider |-> "todoist", max |-> Num(0), since_hours |-> Str(""), dry_run |-> TRUE],
     [provider |-> "google_tasks", max |-> Str("0"), since_hours |-> Str("abc"), dry_run |-> FALSE]}

\* The settings the page can be given (settings?.max, settings?.dry_run).
SettingsValues == {[max |-> Undef, dry_run |-> FALSE], [max |-> Num(5), dry_run |-> TRUE]}

baseFormData(settings) ==
    [provider |-> "google_tasks", max |-> settings.max, since_hours |-> Undef,
     dry_run |-> settings.dry_run]

\* Params that keep the provider of the form.
SubmitParamsFormProvider(fd) ==
    [provider |-> fd.provider,
     max |-> IF Truthy(fd.max) THEN ToNumber(fd.max) ELSE Undef,
     since_hours |-> IF Truthy(fd.since_hours) THEN ToNumber(fd.since_hours) ELSE Undef,
     dry_run |-> fd.dry_run]

\* The params handleSubmit builds from formData.
SubmitParams(fd) ==
    [provider |-> "google_tasks",
     max |-> IF Truthy(fd.max) THEN ToNumber(fd.max) ELSE Undef,
     since_hours |-> IF Truthy(fd.since_hours) THEN ToNumber(fd.since_hours) ELSE Undef,
     dry_run |-> fd.dry_run]

\* A handler that reports an empty result as an error.
SeverityForZeroIsError(result) ==
    IF result.processed = 0 /\ result.already_processed = 0 THEN "error"
    ELSE IF result.processed = 0 /\ result.already_processed > 0 THEN "info"
    ELSE "success"

\* A handler without the branch for emails that were already processed.
SeverityForNoInfo(result) ==
    IF result.processed = 0 /\ result.already_processed = 0 THEN "warning"
    ELSE "success"

\* The severity handleSubmit chooses for a result.
SeverityFor(result) ==
    IF result.processed = 0 /\ result.already_processed = 0 THEN "warning"
    ELSE IF result.processed = 0 /\ result.already_processed > 0 THEN "info"
    ELSE "success"

\* The message handleSubmit chooses for a result (the counts left out).
MessageFor(result) ==
    IF result.processed = 0 /\ result.already_processed = 0
    THEN "No emails found matching your criteria."
    ELSE IF result.processed = 0 /\ result.already_processed > 0
    THEN "Found emails, but they were already processed. No new tasks created."
    ELSE IF result.calendar_events > 0
    THEN "Successfully processed. Also created calendar event(s)."
    ELSE "Successfully processed"

OpenSnackbar(message, severity) ==
    /\ snackbarMessage' = message
    /\ snackbarSeverity' = severity
    /\ showSnackbar' = TRUE

\* Snackbar onClose / Alert onClose / autoHideDuration.
onClose ==
    /\ showSnackbar
    /\ showSnackbar' = FALSE
    /\ UNCHANGED <<serverVars, snackbarSeverity, snackbarMessage, fetchVars, tasksVars,
                   eventsVars, authVars, legacyVars, countVars, pageVars>>

\* ProcessEmailsForm's onFormDataChange; the form is in the panel of tab 0.
onFormDataChange(fd) ==
    /\ authenticated
    /\ tabValue = 0
    /\ fd # formData
    /\ formData' = fd
    /\ UNCHANGED <<serverVars, snackVars, fetchVars, tasksVars, eventsVars, authVars,
                   legacyVars, countVars, authenticated, tabValue>>

\* The effect that resets formData when the settings arrive.
settingsEffect(settings) ==
    /\ authenticated
    /\ formData # baseFormData(settings)
    /\ formData' = baseFormData(settings)
    /\ UNCHANGED <<serverVars, snackVars, fetchVars, tasksVars, eventsVars, authVars,
                   legacyVars, countVars, authenticated, tabValue>>

\* ---------------------------------------------- useTasks / useCalendarEvents
\* loadTasks up to its await: the flags are set and the request is issued.
LoadTasksStart(origin) ==
    /\ tasksLoading' = TRUE
    /\ tasksError' = NULL
    /\ tasksPending' = tasksPending \cup
           {[id |-> calls["loadTasks"] + 1, origin |-> origin, phase |-> "sent",
             data |-> <<>>]}
    /\ Invoke("loadTasks")
    /\ UNCHANGED <<tasks, deletePending>>

\* loadEvents up to its await.
LoadEventsStart(origin) ==
    /\ eventsLoading' = TRUE
    /\ eventsError' = NULL
    /\ eventsPending' = eventsPending \cup
           {[id |-> calls["loadEvents"] + 1, origin |-> origin, phase |-> "sent",
             data |-> <<>>]}
    /\ Invoke("loadEvents")
    /\ UNCHANGED <<events, deleteEventPending>>


\* The Tabs' onChange followed by the effect on [authenticated, tabValue]: tab 1
\* loads the tasks, tab 2 the calendar events; a failure is caught by the effect.
onTabChange(t) ==
    /\ authenticated
    /\ t # tabValue
    /\ t \in {1, 2} => CanCall
    /\ tabValue' = t
    /\ IF authenticated /\ t = 1
       THEN LoadTasksStart("tab") /\ UNCHANGED eventsVars
       ELSE IF authenticated /\ t = 2
       THEN LoadEventsStart("tab") /\ UNCHANGED tasksVars
       ELSE UNCHANGED <<tasksVars, eventsVars, countVars>>
    /\ UNCHANGED <<serverVars, snackVars, fetchVars, authVars, legacyVars,
                   authenticated, formData>>

\* AllTasksTable's onRefresh={loadTasks}; the table is in the panel of tab 1.
onRefreshTasks ==
    /\ authenticated
    /\ tabValue = 1
    /\ CanCall
    /\ LoadTasksStart("refresh")
    /\ UNCHANGED <<serverVars, snackVars, fetchVars, eventsVars, authVars, legacyVars,
                   pageVars>>

\* AllCalendarEventsTable's onRefresh={loadEvents}; in the panel of tab 2.
onRefreshEvents ==
    /\ authenticated
    /\ tabValue = 2
    /\ CanCall
    /\ LoadEventsStart("refresh")
    /\ UNCHANGED <<serverVars, snackVars, fetchVars, tasksVars, authVars, legacyVars,
                   pageVars>>

\* GET /api/tasks: the backend answers load request r with the tasks it holds.
apiGetAllTasks(r) ==
    /\ r \in tasksPending
    /\ r.phase = "sent"
    /\ tasksPending' = (tasksPending \ {r}) \cup
           {[r EXCEPT !.phase = "answered", !.data = serverTasks]}
    /\ UNCHANGED <<serverVars, snackVars, fetchVars, tasks, tasksLoading, tasksError,
                   deletePending, eventsVars, authVars, legacyVars, countVars, pageVars>>

\* GET /api/calendar-events.
apiGetAllCalendarEvents(r) ==
    /\ r \in eventsPending
    /\ r.phase = "sent"
    /\ eventsPending' = (eventsPending \ {r}) \cup
           {[r EXCEPT !.phase = "answered", !.data = serverEvents]}
    /\ UNCHANGED <<serverVars, snackVars, fetchVars, tasksVars, events, eventsLoading,
                   eventsError, deleteEventPending, authVars, legacyVars, countVars,
                   pageVars>>

\* loadTasks after its await, the request having succeeded (try, then finally).
loadTasksResolved(r) ==
    /\ r \in tasksPending
    /\ r.phase = "answered"
    /\ tasks' = r.data
    /\ tasksLoading' = FALSE
    /\ tasksPending' = tasksPending \ {r}
    /\ ReturnsData("loadTasks", r)
    /\ UNCHANGED <<serverVars, snackVars, fetchVars, tasksError, deletePending,
                   eventsVars, authVars, legacyVars, invVars, pageVars>>

\* A tab effect that drops the failure as handleSubmit does.
LoadFailureHandlerSilent(origin, e, fallback) == UNCHANGED snackVars

\* What the caller of a failed load does with the re-thrown failure: the tab
\* effect opens the snackbar, handleSubmit's .catch(() => {}) drops it, and
\* nothing in the page handles the one a Refresh click gets.
LoadFailureHandler(origin, e, fallback) ==
    IF origin = "tab"
    THEN OpenSnackbar(ErrMessage(e, fallback), "error")
    ELSE UNCHANGED snackVars

\* A loadTasks that issues its request again when it has failed.
loadTasksRejectedRetry(r, e) ==
    /\ r \in tasksPending
    /\ tasksError' = ErrMessage(e, "Failed to load tasks")
    /\ tasksLoading' = TRUE
    /\ tasksPending' = (tasksPending \ {r}) \cup {[r EXCEPT !.phase = "sent"]}
    /\ requests["loadTasks"] <= MaxCalls
    /\ requests' = [requests EXCEPT !["loadTasks"] = @ + 1]
    /\ UNCHANGED <<callLimit, setupVars, histVars>>
    /\ UNCHANGED <<serverVars, snackVars, fetchVars, tasks, deletePending, eventsVars,
                   authVars, legacyVars, calls, pageVars>>

\* A loadTasks whose failure path does not reach the finally block.
loadTasksRejectedNoFinally(r, e) ==
    /\ r \in tasksPending
    /\ tasksError' = ErrMessage(e, "Failed to load tasks")
    /\ tasksPending' = tasksPending \ {r}
    /\ LoadFailureHandler(r.origin, e, "Failed to load tasks")
    /\ Throws("loadTasks", e)
    /\ UNCHANGED <<serverVars, fetchVars, tasks, tasksLoading, deletePending, eventsVars,
                   authVars, legacyVars, invVars, pageVars>>

\* A loadTasks that empties the list when its request has failed.
loadTasksRejectedClearsList(r, e) ==
    /\ r \in tasksPending
    /\ tasks' = <<>>
    /\ tasksError' = ErrMessage(e, "Failed to load tasks")
    /\ tasksLoading' = FALSE
    /\ tasksPending' = tasksPending \ {r}
    /\ LoadFailureHandler(r.origin, e, "Failed to load tasks")
    /\ Throws("loadTasks", e)
    /\ UNCHANGED <<serverVars, fetchVars, deletePending, eventsVars, authVars,
                   legacyVars, invVars, pageVars>>

\* loadTasks after its await, the request having failed (catch, then finally).
loadTasksRejected(r, e) ==
    /\ r \in tasksPending
    /\ tasksError' = ErrMessage(e, "Failed to load tasks")
    /\ tasksLoading' = FALSE
    /\ tasksPending' = tasksPending \ {r}
    /\ LoadFailureHandler(r.origin, e, "Failed to load tasks")
    /\ Throws("loadTasks", e)
    /\ UNCHANGED <<serverVars, fetchVars, tasks, deletePending, eventsVars, authVars,
                   legacyVars, invVars, pageVars>>

\* loadEvents after its await, the request having succeeded.
loadEventsResolved(r) ==
    /\ r \in eventsPending
    /\ r.phase = "answered"
    /\ events' = r.data
    /\ eventsLoading' = FALSE
    /\ eventsPending' = eventsPending \ {r}
    /\ ReturnsData("loadEvents", r)
    /\ UNCHANGED <<serverVars, snackVars, fetchVars, tasksVars, eventsError,
                   deleteEventPending, authVars, legacyVars, invVars, pageVars>>

\* loadEvents after its await, the request having failed.
loadEventsRejected(r, e) ==
    /\ r \in eventsPending
    /\ eventsError' = ErrMessage(e, "Failed to load calendar events")
    /\ eventsLoading' = FALSE
    /\ eventsPending' = eventsPending \ {r}
    /\ LoadFailureHandler(r.origin, e, "Failed to load calendar events")
    /\ Throws("loadEvents", e)
    /\ UNCHANGED <<serverVars, fetchVars, tasksVars, events, deleteEventPending,
                   authVars, legacyVars, invVars, pageVars>>

\* ------------------------------------------------ useFetchEmails, handleSubmit
\* ProcessEmailsForm is given loading={loading}: it takes no submit while the
\* fetch is loading.
SubmitEnabled == ~fetchLoading

\* fetchEmails up to its await.
FetchEmailsStart(params) ==
    /\ fetchLoading' = TRUE
    /\ fetchPending' = fetchPending \cup
           {[id |-> calls["fetchEmails"] + 1, params |-> params, tab |-> tabValue,
             phase |-> "sent", resp |-> NoResponse]}

\* handleSubmit up to its await: the form is in the panel of tab 0, so the handler
\* that runs is the one of a render with tabValue = 0.
handleSubmit ==
    /\ authenticated
    /\ tabValue = 0
    /\ SubmitEnabled
    /\ CanCall
    /\ FetchEmailsStart(SubmitParams(formData))
    /\ Invoke("fetchEmails")
    /\ UNCHANGED <<serverVars, snackVars, tasksVars, eventsVars, authVars, legacyVars,
                   pageVars>>

\* handleSubmit after its await, fetchEmails having returned r.resp; r.tab is the
\* tabValue the handler closed over.
handleSubmitResolved(r) ==
    /\ r \in fetchPending
    /\ r.phase = "answered"
    /\ fetchPending' = fetchPending \ {r}
    /\ fetchLoading' = FALSE
    /\ OpenSnackbar(MessageFor(r.resp), SeverityFor(r.resp))
    /\ IF SeverityFor(r.resp) = "success" /\ r.tab = 1
       THEN LoadTasksStart("submit") /\ UNCHANGED eventsVars
       ELSE IF SeverityFor(r.resp) = "success" /\ r.tab = 2
       THEN LoadEventsStart("submit") /\ UNCHANGED tasksVars
       ELSE UNCHANGED <<tasksVars, eventsVars, countVars>>
    /\ UNCHANGED <<serverVars, authVars, legacyVars, pageVars>>

\* handleSubmit's catch, fetchEmails having thrown e.
handleSubmitRejected(r, e) ==
    /\ r \in fetchPending
    /\ fetchPending' = fetchPending \ {r}
    /\ fetchLoading' = FALSE
    /\ OpenSnackbar(ErrMessage(e, "An error occurred"), "error")
    /\ UNCHANGED <<serverVars, tasksVars, eventsVars, authVars, legacyVars, countVars,
                   pageVars>>


\* deleteTask up to its await.
deleteTask(taskId) ==
    /\ authenticated
    /\ CanCall
    /\ tasksError' = NULL
    /\ deletePending' = deletePending \cup
           {[id |-> calls["deleteTask"] + 1, item |-> taskId, phase |-> "sent"]}
    /\ Invoke("deleteTask")
    /\ UNCHANGED <<serverVars, snackVars, fetchVars, tasks, tasksLoading, tasksPending,
                   eventsVars, authVars, legacyVars, pageVars>>

\* DELETE /api/tasks/:id.
apiDeleteTask(r) ==
    /\ r \in deletePending
    /\ r.phase = "sent"
    /\ serverTasks' = FilterOut(serverTasks, r.item)
    /\ deletePending' = (deletePending \ {r}) \cup {[r EXCEPT !.phase = "answered"]}
    /\ UNCHANGED <<processedStore, serverEvents, snackVars, fetchVars, tasks,
                   tasksLoading, tasksError, tasksPending, eventsVars, authVars,
                   legacyVars, countVars, pageVars>>

\* deleteTask after its await, the request having succeeded.
deleteTaskResolved(r) ==
    /\ r \in deletePending
    /\ r.phase = "answered"
    /\ tasks' = FilterOut(tasks, r.item)
    /\ deletePending' = deletePending \ {r}
    /\ ReturnsDeleted(r.item)
    /\ UNCHANGED <<serverVars, snackVars, fetchVars, tasksLoading, tasksError,
                   tasksPending, eventsVars, authVars, legacyVars, invVars, pageVars>>

\* A deleteTask that removes the task although its request has failed.
deleteTaskRejectedRemoves(r, e) ==
    /\ r \in deletePending
    /\ tasks' = FilterOut(tasks, r.item)
    /\ tasksError' = ErrMessage(e, "Failed to delete task")
    /\ deletePending' = deletePending \ {r}
    /\ Throws("deleteTask", e)
    /\ UNCHANGED <<serverVars, snackVars, fetchVars, tasksLoading, tasksPending,
                   eventsVars, authVars, legacyVars, invVars, pageVars>>

\* deleteTask's catch.
deleteTaskRejected(r, e) ==
    /\ r \in deletePending
    /\ tasksError' = ErrMessage(e, "Failed to delete task")
    /\ deletePending' = deletePending \ {r}
    /\ Throws("deleteTask", e)
    /\ UNCHANGED <<serverVars, snackVars, fetchVars, tasks, tasksLoading, tasksPending,
                   eventsVars, authVars, legacyVars, invVars, pageVars>>

\* deleteEvent up to its await.
deleteEvent(eventId) ==
    /\ authenticated
    /\ CanCall
    /\ eventsError' = NULL
    /\ deleteEventPending' = deleteEventPending \cup
           {[id |-> calls["deleteEvent"] + 1, item |-> eventId, phase |-> "sent"]}
    /\ Invoke("deleteEvent")
    /\ UNCHANGED <<serverVars, snackVars, fetchVars, tasksVars, events, eventsLoading,
                   eventsPending, authVars, legacyVars, pageVars>>

\* The backend deletes the calendar event.
apiDeleteCalendarEvent(r) ==
    /\ r \in deleteEventPending
    /\ r.phase = "sent"
    /\ serverEvents' = FilterOut(serverEvents, r.item)
    /\ deleteEventPending' =
           (deleteEventPending \ {r}) \cup {[r EXCEPT !.phase = "answered"]}
    /\ UNCHANGED <<processedStore, serverTasks, snackVars, fetchVars, tasksVars, events,
                   eventsLoading, eventsError, eventsPending, authVars, legacyVars,
                   countVars, pageVars>>

\* deleteEvent after its await, the request having succeeded.
deleteEventResolved(r) ==
    /\ r \in deleteEventPending
    /\ r.phase = "answered"
    /\ events' = FilterOut(events, r.item)
    /\ deleteEventPending' = deleteEventPending \ {r}
    /\ Returns("deleteEvent")
    /\ UNCHANGED <<serverVars, snackVars, fetchVars, tasksVars, eventsLoading,
                   eventsError, eventsPending, authVars, legacyVars, invVars, pageVars>>

\* deleteEvent's catch.
deleteEventRejected(r, e) ==
    /\ r \in deleteEventPending
    /\ eventsError' = ErrMessage(e, "Failed to delete calendar event")
    /\ deleteEventPending' = deleteEventPending \ {r}
    /\ Throws("deleteEvent", e)
    /\ UNCHANGED <<serverVars, snackVars, fetchVars, tasksVars, events, eventsLoading,
                   eventsPending, authVars, legacyVars, invVars, pageVars>>

\* ----------------------------------------------------------------- useAuth
\* checkAuth up to its await.
checkAuth ==
    /\ CanCall
    /\ authLoading' = TRUE
    /\ authPending' = authPending \cup {calls["checkAuth"] + 1}
    /\ Invoke("checkAuth")
    /\ UNCHANGED <<serverVars, snackVars, fetchVars, tasksVars, eventsVars, authState,
                   authReturned, legacyVars, pageVars>>

\* checkAuth after its await, api.checkAuth having returned isAuth.
checkAuthResolved(id, isAuth) ==
    /\ id \in authPending
    /\ authState' = isAuth
    /\ authReturned' = <<isAuth>>
    /\ authLoading' = FALSE
    /\ authPending' = authPending \ {id}
    /\ Returns("checkAuth")
    /\ UNCHANGED <<serverVars, snackVars, fetchVars, tasksVars, eventsVars, legacyVars,
                   invVars, pageVars>>

\* A checkAuth whose catch leaves authenticated as it is.
checkAuthRejectedKeepsAuth(id) ==
    /\ id \in authPending
    /\ authReturned' = <<FALSE>>
    /\ authLoading' = FALSE
    /\ authPending' = authPending \ {id}
    /\ Returns("checkAuth")
    /\ UNCHANGED <<serverVars, snackVars, fetchVars, tasksVars, eventsVars, authState,
                   legacyVars, invVars, pageVars>>

\* checkAuth's catch.
checkAuthRejected(id) ==
    /\ id \in authPending
    /\ authState' = FALSE
    /\ authReturned' = <<FALSE>>
    /\ authLoading' = FALSE
    /\ authPending' = authPending \ {id}
    /\ Returns("checkAuth")
    /\ UNCHANGED <<serverVars, snackVars, fetchVars, tasksVars, eventsVars, legacyVars,
                   invVars, pageVars>>


\* ------------------------------------------------------ legacy page script
\* What the browser's fetch gives emailProcessor.fetch: it throws, or it returns
\* a response (redirects are followed, so a 3xx status is never seen).  body is
\* what response.json() meets: a result with processed = 0, one with
\* processed > 0, an error payload with or without its error field, or text
\* that is not JSON (the page a redirect leads to, or an error page; the API
\* itself answers with JSON).
Responses ==
    {[threw |-> TRUE, redirected |-> FALSE, status |-> 0, body |-> "none"],
     [threw |-> FALSE, redirected |-> TRUE, status |-> 200, body |-> "html"],
     [threw |-> FALSE, redirected |-> FALSE, status |-> 200, body |-> "processed0"],
     [threw |-> FALSE, redirected |-> FALSE, status |-> 200, body |-> "processedN"],
     [threw |-> FALSE, redirected |-> FALSE, status |-> 500, body |-> "error"],
     [threw |-> FALSE, redirected |-> FALSE, status |-> 500, body |-> "noerror"],
     [threw |-> FALSE, redirected |-> FALSE, status |-> 404, body |-> "html"]}

\* response.ok
ResponseOk(resp) == ~resp.threw /\ resp.status >= 200 /\ resp.status <= 299

Failure(error) == [success |-> FALSE, redirect |-> FALSE, data |-> "none", error |-> error]

\* data.error || 'An error occurred while processing emails'
ErrorOf(body) ==
    IF body = "error" THEN "data.error" ELSE "An error occurred while processing emails"

\* An emailProcessor.fetch that reports an empty result as a failure.
fetchPart005ZeroFails(resp) ==
    IF resp.threw THEN Failure("Network error")
    ELSE IF resp.redirected \/ resp.status = 302
    THEN [success |-> TRUE, redirect |-> TRUE, data |-> "none", error |-> "none"]
    ELSE IF resp.body = "html" THEN Failure("Network error")
    ELSE IF ResponseOk(resp)
    THEN IF resp.body = "processed0"
         THEN Failure("No emails found")
         ELSE [success |-> TRUE, redirect |-> FALSE, data |-> resp.body, error |-> "none"]
    ELSE Failure(ErrorOf(resp.body))

\* emailProcessor.fetch of the page script that handles the result itself.
fetchPart005(resp) ==
    IF resp.threw THEN Failure("Network error")
    ELSE IF resp.redirected \/ resp.status = 302
    THEN [success |-> TRUE, redirect |-> TRUE, data |-> "none", error |-> "none"]
    ELSE IF resp.body = "html" THEN Failure("Network error")
    ELSE IF ResponseOk(resp)
    THEN IF resp.body = "processed0"
         THEN [success |-> TRUE, redirect |-> TRUE, data |-> resp.body, error |-> "none"]
         ELSE [success |-> TRUE, redirect |-> FALSE, data |-> resp.body, error |-> "none"]
    ELSE Failure(ErrorOf(resp.body))

\* emailProcessor.fetch of static/js/app.js, whose form submits natively.
fetchStatic(resp) ==
    IF resp.threw THEN Failure("Network error")
    ELSE IF resp.redirected \/ resp.status = 302
    THEN [success |-> TRUE, redirect |-> TRUE, data |-> "none", error |-> "none"]
    ELSE IF resp.body = "html" THEN Failure("Network error")
    ELSE IF ResponseOk(resp) THEN Failure("Unexpected response format")
    ELSE Failure(ErrorOf(resp.body))

\* emailProcessor.fetch of the script the page runs.
emailProcessorFetch(resp) ==
    IF script = "part_005" THEN fetchPart005(resp) ELSE fetchStatic(resp)

\* Whether emailProcessor.fetch itself sends the browser to another page.
FetchNavigates(resp) ==
    /\ script = "part_005"
    /\ fetchPart005(resp).redirect

\* A submit handler that leaves the button enabled.
fetchFormSubmitNoDisable ==
    /\ script = "part_005"
    /\ page # "navigating"
    /\ ~fetchBtnDisabled
    /\ CanCall
    /\ page' = "loading"
    /\ epPending' = epPending \cup
           {[id |-> calls["emailProcessor.fetch"] + 1, origin |-> "submit"]}
    /\ Invoke("emailProcessor.fetch")
    /\ UNCHANGED <<serverVars, snackVars, fetchVars, tasksVars, eventsVars, authVars,
                   script, fetchBtnDisabled, epResponse, epResult, pageVars>>

\* The fetchForm submit handler up to its await: the button is disabled and
\* emailProcessor.fetch is called.  A disabled submit button submits nothing.
fetchFormSubmit ==
    /\ script = "part_005"
    /\ page # "navigating"
    /\ ~fetchBtnDisabled
    /\ CanCall
    /\ page' = "loading"
    /\ fetchBtnDisabled' = TRUE
    /\ epPending' = epPending \cup
           {[id |-> calls["emailProcessor.fetch"] + 1, origin |-> "submit"]}
    /\ Invoke("emailProcessor.fetch")
    /\ UNCHANGED <<serverVars, snackVars, fetchVars, tasksVars, eventsVars, authVars,
                   script, epResponse, epResult, pageVars>>

\* The fetchForm submit handler of static/js/app.js: showLoading disables the
\* button and the browser submits the form itself, leaving the page.
fetchFormSubmitStatic ==
    /\ script = "app.js"
    /\ page # "navigating"
    /\ ~fetchBtnDisabled
    /\ fetchBtnDisabled' = TRUE
    /\ page' = "navigating"
    /\ epPending' = epPending \cup {[id |-> 0, origin |-> "form"]}
    /\ UNCHANGED <<serverVars, snackVars, fetchVars, tasksVars, eventsVars, authVars,
                   script, epResponse, epResult, countVars, pageVars>>

\* emailProcessor.fetch called by anything but the submit handler.
emailProcessorFetchCall ==
    /\ page # "navigating"
    /\ CanCall
    /\ epPending' = epPending \cup
           {[id |-> calls["emailProcessor.fetch"] + 1, origin |-> "direct"]}
    /\ Invoke("emailProcessor.fetch")
    /\ UNCHANGED <<serverVars, snackVars, fetchVars, tasksVars, eventsVars, authVars,
                   script, fetchBtnDisabled, page, epResponse, epResult, pageVars>>

\* emailProcessor.fetch after its await, called directly: it returns its result.
emailProcessorFetchReturns(r, resp) ==
    /\ r \in epPending
    /\ r.origin = "direct"
    /\ page # "navigating"
    /\ epPending' = epPending \ {r}
    /\ epResponse' = <<resp>>
    /\ epResult' = <<emailProcessorFetch(resp)>>
    /\ page' = IF FetchNavigates(resp) THEN "navigating" ELSE page
    /\ UNCHANGED <<serverVars, snackVars, fetchVars, tasksVars, eventsVars, authVars,
                   script, fetchBtnDisabled, countVars, pageVars>>

\* The fetchForm submit handler after its await: a redirecting result returns
\* at once; otherwise the results or the error are shown and the button is
\* enabled again.
fetchFormSubmitSettled(r, resp) ==
    /\ r \in epPending
    /\ r.origin = "submit"
    /\ page # "navigating"
    /\ epPending' = epPending \ {r}
    /\ epResponse' = <<resp>>
    /\ epResult' = <<emailProcessorFetch(resp)>>
    /\ LET result == emailProcessorFetch(resp)
       IN IF result.success /\ result.redirect
          THEN /\ page' = IF FetchNavigates(resp) THEN "navigating" ELSE page
               /\ UNCHANGED fetchBtnDisabled
          ELSE /\ page' = IF result.success THEN "results" ELSE "error"
               /\ fetchBtnDisabled' = FALSE
    /\ UNCHANGED <<serverVars, snackVars, fetchVars, tasksVars, eventsVars, authVars,
                   script, countVars, pageVars>>

\* The navigation ends: a new document is loaded and DOMContentLoaded runs; the
\* requests of the old document are gone with it.
pageLoaded ==
    /\ page = "navigating"
    /\ page' = "form"
    /\ fetchBtnDisabled' = FALSE
    /\ epPending' = {}
    /\ epResponse' = <<>>
    /\ epResult' = <<>>
    /\ UNCHANGED <<serverVars, snackVars, fetchVars, tasksVars, eventsVars, authVars,
                   script, countVars, pageVars>>

\* ------------------------------------------------------------ setup script
\* Everything but the setup script and its machine.
appVars == <<serverVars, snackVars, fetchVars, tasksVars, eventsVars, authVars,
             legacyVars, histVars, pageVars, calls, requests, callLimit>>

\* The machines the script can be started on.
Machines == [python3 : BOOLEAN, pip3 : BOOLEAN, requirementsTxt : BOOLEAN,
             clientSecretJson : BOOLEAN]

\* The exit status of pip3 install: 0, or what pip3 reports for a failure.
PipStatuses == {0, 1, 2}

\* The lines read answers the prompts with; EndOfInput is a closed stdin.
EndOfInput == <<"EOF">>
YnLines == {<<"y">>, <<"Y", "e", "s">>, <<"n">>, <<"m">>, <<>>, EndOfInput}
TokenLines == {<<>>, <<" ">>, <<"t">>, <<" ", "t", "k">>, EndOfInput}

RECURSIVE StripLeft(_)
StripLeft(line) ==
    IF line # <<>> /\ Head(line) = " " THEN StripLeft(Tail(line)) ELSE line

RECURSIVE StripRight(_)
StripRight(line) ==
    IF line # <<>> /\ line[Len(line)] = " "
    THEN StripRight(SubSeq(line, 1, Len(line) - 1))
    ELSE line

\* What read assigns: the line without its leading and trailing blanks.
ReadValue(line) == StripRight(StripLeft(line))

\* case $yn in [Yy]* ) ... [Nn]* ) ... * ) ...
YnCase(answer) ==
    IF answer # <<>> /\ answer[1] \in {"y", "Y"} THEN "yes"
    ELSE IF answer # <<>> /\ answer[1] \in {"n", "N"} THEN "no"
    ELSE "other"

Running == exitStatus = <<>>

\* exit status, or the end set -e puts to the script when a command fails.
Exit(status) ==
    /\ exitStatus' = <<status>>
    /\ UNCHANGED <<machineVars, shPc, installed, prompts, envFile>>

\* The script goes on to the step next.
GoTo(next) ==
    /\ shPc' = next
    /\ UNCHANGED <<machineVars, installed, prompts, envFile, exitStatus>>

\* The prompt is shown again.
PromptAgain ==
    /\ prompts < MaxPrompts
    /\ prompts' = prompts + 1
    /\ UNCHANGED <<machineVars, shPc, installed, envFile, exitStatus>>

\* if ! command -v python3; then exit 1
checkPython ==
    /\ Running /\ shPc = "python3"
    /\ IF python3 THEN GoTo("pip3") ELSE Exit(1)
    /\ UNCHANGED <<readVars, appVars>>

\* if ! command -v pip3; then exit 1
checkPip ==
    /\ Running /\ shPc = "pip3"
    /\ IF pip3 THEN GoTo("install") ELSE Exit(1)
    /\ UNCHANGED <<readVars, appVars>>

\* pip3 install -r requirements.txt if the file is there, exit 1 otherwise; under
\* set -e a failing pip3 ends the script with pip3's status.
installDependencies(status) ==
    /\ Running /\ shPc = "install"
    /\ IF ~requirementsTxt THEN Exit(1)
       ELSE IF status # 0 THEN Exit(status)
       ELSE /\ installed' = TRUE
            /\ shPc' = "client_secret"
            /\ UNCHANGED <<machineVars, prompts, envFile, exitStatus>>
    /\ UNCHANGED <<readVars, appVars>>

\* if [ ! -f "client_secret.json" ]: the instructions and the question, or on.
checkClientSecret ==
    /\ Running /\ shPc = "client_secret"
    /\ IF clientSecretJson THEN GoTo("token") ELSE GoTo("confirm")
    /\ UNCHANGED <<readVars, appVars>>

\* The user saves client_secret.json while the script waits for the answer.
addClientSecret ==
    /\ Running /\ shPc = "confirm"
    /\ ~clientSecretJson
    /\ clientSecretJson' = TRUE
    /\ UNCHANGED <<python3, pip3, requirementsTxt, shPc, installed, prompts, readVars,
                   envFile, exitStatus>>
    /\ UNCHANGED appVars

\* read -p "Have you added client_secret.json ...? (y/n): " yn and the case on
\* it; read fails on a closed stdin, which ends the script under set -e.
confirmClientSecret(line) ==
    /\ Running /\ shPc = "confirm"
    /\ yn' = IF line = EndOfInput THEN <<>> ELSE ReadValue(line)
    /\ IF line = EndOfInput THEN Exit(1)
       ELSE IF YnCase(ReadValue(line)) = "yes"
       THEN (IF clientSecretJson THEN GoTo("token") ELSE Exit(1))
       ELSE IF YnCase(ReadValue(line)) = "no" THEN Exit(1)
       ELSE PromptAgain
    /\ UNCHANGED <<TODOIST_TOKEN, appVars>>

\* A prompt that takes whatever was entered.
readTokenAny(line) ==
    /\ Running /\ shPc = "token"
    /\ TODOIST_TOKEN' = IF line = EndOfInput THEN <<>> ELSE ReadValue(line)
    /\ IF line = EndOfInput THEN Exit(1) ELSE GoTo("env")
    /\ UNCHANGED <<yn, appVars>>

\* read -p "Enter your Todoist API token: " TODOIST_TOKEN in its loop: break
\* when [ -n "$TODOIST_TOKEN" ], the error and the prompt again otherwise.
readToken(line) ==
    /\ Running /\ shPc = "token"
    /\ TODOIST_TOKEN' = IF line = EndOfInput THEN <<>> ELSE ReadValue(line)
    /\ IF line = EndOfInput THEN Exit(1)
       ELSE IF ReadValue(line) # <<>> THEN GoTo("env")
       ELSE PromptAgain
    /\ UNCHANGED <<yn, appVars>>

\* cat > .env with TODOIST_API_TOKEN=$TODOIST_TOKEN, the summary, and the end.
createEnv ==
    /\ Running /\ shPc = "env"
    /\ envFile' = <<TODOIST_TOKEN>>
    /\ exitStatus' = <<0>>
    /\ UNCHANGED <<machineVars, shPc, installed, prompts, readVars>>
    /\ UNCHANGED appVars

\* The script is started and nothing of it has run.
InitSetup(machines) ==
    /\ \E m \in machines :
          /\ python3 = m.python3
          /\ pip3 = m.pip3
          /\ requirementsTxt = m.requirementsTxt
          /\ clientSecretJson = m.clientSecretJson
    /\ shPc = "python3"
    /\ installed = FALSE
    /\ prompts = 0
    /\ yn = <<>>
    /\ TODOIST_TOKEN = <<>>
    /\ envFile = <<>>
    /\ exitStatus = <<>>

NextSetup ==
    \/ checkPython
    \/ checkPip
    \/ \E status \in PipStatuses : installDependencies(status)
    \/ checkClientSecret
    \/ addClientSecret
    \/ \E line \in YnLines : confirmClientSecret(line)
    \/ \E line \in TokenLines : readToken(line)
    \/ createEnv

\* ------------------------------------------------------------ specification
\* Everything as it is once the pages and hooks are constructed; the script the
\* legacy page runs, the token useAuth finds and the Converter's prop are given.
InitPages(servers, limit, scripts, tokens, props) ==
    /\ \E sv \in servers :
          /\ processedStore = sv.store
          /\ serverTasks = sv.store
          /\ serverEvents = sv.events
    /\ authenticated \in props
    /\ tabValue = 0
    /\ showSnackbar = FALSE
    /\ snackbarSeverity = "success"
    /\ snackbarMessage = ""
    /\ formData = baseFormData([max |-> Undef, dry_run |-> FALSE])
    /\ fetchLoading = FALSE
    /\ fetchPending = {}
    /\ tasks = <<>>
    /\ tasksLoading = FALSE
    /\ tasksError = NULL
    /\ tasksPending = {}
    /\ deletePending = {}
    /\ events = <<>>
    /\ eventsLoading = FALSE
    /\ eventsError = NULL
    /\ eventsPending = {}
    /\ deleteEventPending = {}
    /\ authState \in tokens
    /\ authLoading = TRUE
    /\ authPending = {}
    /\ authReturned = <<>>
    /\ script \in scripts
    /\ fetchBtnDisabled = FALSE
    /\ page = "form"
    /\ epPending = {}
    /\ epResponse = <<>>
    /\ epResult = <<>>
    /\ calls = [op \in Ops |-> 0]
    /\ requests = [op \in Ops |-> 0]
    /\ callLimit = limit
    /\ lastSettled = [op |-> "none", threw |-> FALSE, err |-> NoError]
    /\ latest = [op \in Ops |-> <<>>]
    /\ deleted = {}

\* The pages and hooks on a machine that has everything the setup needs.
InitOf(servers, limit, scripts, tokens, props) ==
    /\ InitPages(servers, limit, scripts, tokens, props)
    /\ InitSetup({[python3 |-> TRUE, pip3 |-> TRUE, requirementsTxt |-> TRUE,
                   clientSecretJson |-> TRUE]})

\* The store holds nothing yet, or the record of one message.
InitWith(scripts, tokens, props) ==
    InitOf({[store |-> <<>>, events |-> <<>>], [store |-> <<1>>, events |-> <<>>]},
           MaxCalls, scripts, tokens, props)

\* Two messages have been processed before, both with meeting information.
Processed == [store |-> <<1, 2>>, events |-> <<1, 2>>]

\* The Converter page is studied with the legacy page and useAuth at rest.
Init == InitWith({"part_005"}, {FALSE}, BOOLEAN)

InitLegacy == InitWith({"app.js", "part_005"}, {FALSE}, {TRUE})

InitAuth == InitWith({"part_005"}, BOOLEAN, {TRUE})

\* The form submit and the fetch behind it.
NextSubmit ==
    \/ handleSubmit
    \/ \E r \in fetchPending, F \in SUBSET Msgs, E \in SUBSET Msgs : apiFetchEmails(r, F, E)
    \/ \E r \in fetchPending : handleSubmitResolved(r)
    \/ \E r \in fetchPending, e \in Errors : handleSubmitRejected(r, e)

\* The tabs and the loads of useTasks and useCalendarEvents.
NextLoads ==
    \/ \E t \in 0..2 : onTabChange(t)
    \/ onRefreshTasks
    \/ onRefreshEvents
    \/ \E r \in tasksPending : apiGetAllTasks(r)
    \/ \E r \in tasksPending : loadTasksResolved(r)
    \/ \E r \in tasksPending, e \in Errors : loadTasksRejected(r, e)
    \/ \E r \in eventsPending : apiGetAllCalendarEvents(r)
    \/ \E r \in eventsPending : loadEventsResolved(r)
    \/ \E r \in eventsPending, e \in Errors : loadEventsRejected(r, e)

\* The hooks' delete operations.
NextDelete ==
    \/ \E id \in Msgs : deleteTask(id)
    \/ \E r \in deletePending : apiDeleteTask(r)
    \/ \E r \in deletePending : deleteTaskResolved(r)
    \/ \E r \in deletePending, e \in Errors : deleteTaskRejected(r, e)
    \/ \E id \in Msgs : deleteEvent(id)
    \/ \E r \in deleteEventPending : apiDeleteCalendarEvent(r)
    \/ \E r \in deleteEventPending : deleteEventResolved(r)
    \/ \E r \in deleteEventPending, e \in Errors : deleteEventRejected(r, e)

\* Editing the form.
NextForm ==
    \/ \E fd \in FormInputs : onFormDataChange(fd)
    \/ \E settings \in SettingsValues : settingsEffect(settings)

NextAuth ==
    \/ checkAuth
    \/ \E id \in authPending, isAuth \in BOOLEAN : checkAuthResolved(id, isAuth)
    \/ \E id \in authPending : checkAuthRejected(id)

NextLegacy ==
    \/ fetchFormSubmit
    \/ fetchFormSubmitStatic
    \/ emailProcessorFetchCall
    \/ \E r \in epPending, resp \in Responses : emailProcessorFetchReturns(r, resp)
    \/ \E r \in epPending, resp \in Responses : fetchFormSubmitSettled(r, resp)
    \/ pageLoaded

\* The Converter page with the backend behind it: submit, tabs, loads, snackbar.
Next == onClose \/ NextSubmit \/ NextLoads

Spec == Init /\ [][Next]_vars

\* The Converter's form: its editing and its submit.
SpecForm == Init /\ [][NextForm \/ NextSubmit \/ onClose]_vars

\* useTasks and useCalendarEvents: loads and deletes.
SpecHooks == Init /\ [][NextLoads \/ NextDelete]_vars

\* The legacy page.
SpecLegacy == InitLegacy /\ [][NextLegacy]_vars

\* useAuth.
SpecAuth == InitAuth /\ [][NextAuth]_vars

\* useTasks and useCalendarEvents over a backend that holds tasks and events.
InitLists == InitOf({[store |-> <<>>, events |-> <<>>], Processed}, MaxCalls,
                    {"part_005"}, {FALSE}, {TRUE})

SpecLists == InitLists /\ [][NextLoads \/ NextDelete]_vars

\* useTasks alone: the loads of tab 1 and of Refresh, and the deletes.
NextTasks ==
    \/ \E t \in {0, 1} : onTabChange(t)
    \/ onRefreshTasks
    \/ \E r \in tasksPending : apiGetAllTasks(r)
    \/ \E r \in tasksPending : loadTasksResolved(r)
    \/ \E r \in tasksPending, e \in Errors : loadTasksRejected(r, e)
    \/ \E id \in Msgs : deleteTask(id)
    \/ \E r \in deletePending : apiDeleteTask(r)
    \/ \E r \in deletePending : deleteTaskResolved(r)
    \/ \E r \in deletePending, e \in Errors : deleteTaskRejected(r, e)

InitRace == InitOf({Processed}, MaxRaceCalls, {"part_005"}, {FALSE}, {TRUE})

\* Calls of useTasks that overlap.
SpecRace == InitRace /\ [][NextTasks]_vars

\* useAuth beside the Converter's tabs and loads, as App renders them.
SpecApp == InitAuth /\ [][NextAuth \/ NextLoads]_vars

\* The setup script on every machine, the application not yet in use.
InitScript ==
    /\ InitPages({[store |-> <<>>, events |-> <<>>]}, MaxCalls, {"part_005"}, {FALSE},
                 {FALSE})
    /\ InitSetup(Machines)

SpecSetup == InitScript /\ [][NextSetup]_vars

\* The operations of the hooks and of the legacy page that issue a request.
SpecOps == InitLegacy /\ [][NextLoads \/ NextDelete \/ NextAuth \/ NextLegacy]_vars

\* The form submits of both pages.
SpecSubmit == InitLegacy /\ [][NextSubmit \/ NextLegacy]_vars


\* ------------------------------------------------------------------ claims
\* C1: reprocessing is a no-op.  When the backend handles a fetch that returns
\* the messages F, every message of F already in the processed store gets no new
\* task, no new calendar event and no new record; a fetch of recorded messages
\* only leaves the store as it was; the response counts the recorded messages
\* in already_processed and only the others in processed.
ReprocessingIsNoOp ==
    [][\A r \in fetchPending, F \in SUBSET Msgs, E \in SUBSET Msgs :
         apiFetchEmails(r, F, E) =>
           /\ \A m \in F \cap Range(processedStore) :
                /\ CountIn(serverTasks', m) = CountIn(serverTasks, m)
                /\ CountIn(serverEvents', m) = CountIn(serverEvents, m)
                /\ CountIn(processedStore', m) = CountIn(processedStore, m)
           /\ F \subseteq Range(processedStore) => processedStore' = processedStore
           /\ \A a \in fetchPending' :
                a.id = r.id =>
                  /\ a.resp.already_processed = Cardinality(F \cap Range(processedStore))
                  /\ a.resp.processed = Cardinality(F \ Range(processedStore))]_vars

\* A fetch has returned a message that was already recorded, beside a new one.
ReprocessedWitness ==
    \E r \in fetchPending :
        /\ r.phase = "answered"
        /\ r.resp.already_processed > 0
        /\ r.resp.processed > 0

\* C2: the processed store holds each message id at most once.
StoreIdsUnique == \A m \in Msgs : CountIn(processedStore, m) <= 1

\* Two fetches have been made, the second over recorded messages, and the store
\* holds several ids.
RepeatedFetchWitness ==
    /\ calls["fetchEmails"] = 2
    /\ Len(processedStore) >= 2
    /\ \E r \in fetchPending : r.phase = "answered" /\ r.resp.already_processed > 0

\* C3: a fetch that matches no email is answered with processed = 0 and
\* already_processed = 0, and handleSubmit, given such a result, opens the
\* snackbar with severity 'warning', not 'error'.
ZeroMatchIsWarning ==
    [][/\ \A r \in fetchPending, E \in SUBSET Msgs :
            apiFetchEmails(r, {}, E) =>
              \A a \in fetchPending' :
                  a.id = r.id => a.resp.processed = 0 /\ a.resp.already_processed = 0
       /\ \A r \in fetchPending :
            (handleSubmitResolved(r) /\ r.resp.processed = 0
                                     /\ r.resp.already_processed = 0) =>
              /\ showSnackbar'
              /\ snackbarSeverity' = "warning"
              /\ snackbarMessage' = "No emails found matching your criteria."]_vars

\* The snackbar shows the warning of a fetch that matched nothing.
ZeroMatchWitness ==
    /\ showSnackbar
    /\ snackbarSeverity = "warning"
    /\ calls["fetchEmails"] = 1
    /\ fetchPending = {}

SentAsClaimed(v, sent) ==
    /\ Truthy(v) => sent.t \in {"number", "NaN"}
    /\ Truthy(v) /\ v.t = "number" => sent = v
    /\ ~Truthy(v) => sent = Undef
    /\ v = Num(0) \/ v = Str("") => sent = Undef

SubmitSendsGoogleTasks ==
    [][handleSubmit =>
         \A r \in fetchPending' \ fetchPending :
             /\ r.params.provider = "google_tasks"
             /\ SentAsClaimed(formData.max, r.params.max)
             /\ SentAsClaimed(formData.since_hours, r.params.since_hours)]_vars

\* A form holding another provider, max 0 and since_hours '' has been submitted.
OtherProviderSubmittedWitness ==
    \E r \in fetchPending :
        /\ formData.provider = "todoist"
        /\ formData.max = Num(0)
        /\ formData.since_hours = Str("")
        /\ r.params.provider = "google_tasks"
        /\ r.params.max = Undef
        /\ r.params.since_hours = Undef

\* C9: for every result, handleSubmit opens the snackbar with 'warning' when
\* processed = 0 and already_processed = 0, with 'info' when processed = 0 and
\* already_processed > 0, and with 'success' otherwise; a result with
\* processed = 0 never gets the 'Successfully processed' message.
SeverityMatchesResult ==
    [][\A r \in fetchPending :
         handleSubmitResolved(r) =>
           /\ showSnackbar'
           /\ snackbarSeverity' =
                (IF r.resp.processed = 0
                 THEN (IF r.resp.already_processed = 0 THEN "warning" ELSE "info")
                 ELSE "success")
           /\ r.resp.processed = 0 =>
                snackbarMessage' \notin
                    {"Successfully processed",
                     "Successfully processed. Also created calendar event(s)."}]_vars

\* The snackbar tells that every email found was processed before.
AlreadyProcessedInfoWitness ==
    /\ showSnackbar
    /\ snackbarSeverity = "info"
    /\ fetchPending = {}


\* C4 as stated: emailProcessor.fetch returns success = false only when the
\* response is not OK or the request throws, and every OK response yields
\* success = true.
FetchFailsOnlyOnBadResponse ==
    epResult # <<>> =>
        LET result == epResult[1]
            resp == epResponse[1]
        IN /\ ~result.success => resp.threw \/ ~ResponseOk(resp)
           /\ ResponseOk(resp) => result.success

\* C4 amended: a redirected response yields success = true in both versions.
\* For a response that is not redirected, the version that handles the result
\* itself returns success = false only when the response is not OK or something
\* throws (the request, or response.json() on a body that is not JSON), and
\* success = true for every OK response with a JSON body, processed = 0
\* included; the version of static/js/app.js returns success = false for every
\* response that is not redirected, the OK ones included.
FetchSuccessByVersion ==
    epResult # <<>> =>
        LET result == epResult[1]
            resp == epResponse[1]
            jsonThrows == ~resp.threw /\ resp.body = "html"
        IN /\ (~resp.threw /\ resp.redirected) => result.success
           /\ script = "part_005" =>
                /\ ~result.success => resp.threw \/ jsonThrows \/ ~ResponseOk(resp)
                /\ (ResponseOk(resp) /\ ~jsonThrows) => result.success
           /\ (script = "app.js" /\ ~(~resp.threw /\ resp.redirected)) => ~result.success

\* The version that handles the result itself has returned success for an OK
\* response with processed = 0.
ZeroProcessedSucceedsWitness ==
    /\ script = "part_005"
    /\ epResult # <<>>
    /\ epResponse[1].body = "processed0"
    /\ epResult[1].success

\* C6: no operation retries.  The requests issued by loadTasks, loadEvents,
\* deleteTask, deleteEvent, checkAuth and emailProcessor.fetch are as many as
\* their invocations, and every request in flight belongs to one invocation.
RetriedOps ==
    {"loadTasks", "loadEvents", "deleteTask", "deleteEvent", "checkAuth",
     "emailProcessor.fetch"}

OneRequestPerInvocation ==
    /\ \A op \in RetriedOps : requests[op] = calls[op]
    /\ \A r1, r2 \in tasksPending : r1.id = r2.id => r1 = r2
    /\ \A r1, r2 \in eventsPending : r1.id = r2.id => r1 = r2
    /\ \A r1, r2 \in deletePending : r1.id = r2.id => r1 = r2
    /\ \A r1, r2 \in deleteEventPending : r1.id = r2.id => r1 = r2
    /\ Cardinality(tasksPending) <= calls["loadTasks"]
    /\ Cardinality(eventsPending) <= calls["loadEvents"]
    /\ Cardinality(deletePending) <= calls["deleteTask"]
    /\ Cardinality(deleteEventPending) <= calls["deleteEvent"]
    /\ Cardinality(authPending) <= calls["checkAuth"]
    /\ Cardinality({r \in epPending : r.origin # "form"}) <= calls["emailProcessor.fetch"]

\* loadTasks has failed once, and nothing is in flight for it.
FailedLoadNotReissuedWitness ==
    /\ calls["loadTasks"] = 1
    /\ requests["loadTasks"] = 1
    /\ tasksError # NULL
    /\ tasksPending = {}

PendingIds(P) == {r.id : r \in P}

LoadingFollowsCall ==
    [][/\ calls'["loadTasks"] > calls["loadTasks"] =>
            tasksLoading' /\ tasksError' = NULL
       /\ calls'["loadEvents"] > calls["loadEvents"] =>
            eventsLoading' /\ eventsError' = NULL
       /\ PendingIds(tasksPending') # PendingIds(tasksPending)
              /\ PendingIds(tasksPending') \subseteq PendingIds(tasksPending) => ~tasksLoading'
       /\ PendingIds(eventsPending') # PendingIds(eventsPending)
              /\ PendingIds(eventsPending') \subseteq PendingIds(eventsPending) => ~eventsLoading'
       /\ (Cardinality(tasksPending) = 1 /\ tasksLoading
              /\ PendingIds(tasksPending') = PendingIds(tasksPending)) => tasksLoading'
       /\ (Cardinality(eventsPending) = 1 /\ eventsLoading
              /\ PendingIds(eventsPending') = PendingIds(eventsPending)) => eventsLoading'
       /\ (calls'["loadTasks"] = 1 /\ tasksPending' # {}) => tasksLoading'
       /\ (calls'["loadEvents"] = 1 /\ eventsPending' # {}) => eventsLoading']_vars

\* The only loadTasks call made has failed: loading is false and error is set.
LoadSettledWitness ==
    /\ calls["loadTasks"] = 1
    /\ tasksPending = {}
    /\ ~tasksLoading
    /\ tasksError # NULL

RemovedExactly(before, after, id) ==
    /\ Range(after) = Range(before) \ {id}
    /\ \A x \in Range(after) : CountIn(after, x) = CountIn(before, x)
    /\ \A i, j \in DOMAIN after :
           i < j => \E a, b \in DOMAIN before :
                        a < b /\ before[a] = after[i] /\ before[b] = after[j]
    /\ id \notin Range(before) => after = before

DeleteOnlyAfterSuccess ==
    [][/\ \A id \in Msgs : deleteTask(id) => tasks' = tasks
       /\ \A id \in Msgs : deleteEvent(id) => events' = events
       /\ \A r \in deletePending, e \in Errors :
            deleteTaskRejected(r, e) =>
              /\ tasks' = tasks
              /\ tasksError' = (IF e.isError THEN e.message ELSE "Failed to delete task")
              /\ lastSettled' = [op |-> "deleteTask", threw |-> TRUE, err |-> e]
       /\ \A r \in deleteEventPending, e \in Errors :
            deleteEventRejected(r, e) =>
              /\ events' = events
              /\ eventsError' =
                    (IF e.isError THEN e.message ELSE "Failed to delete calendar event")
              /\ lastSettled' = [op |-> "deleteEvent", threw |-> TRUE, err |-> e]
       /\ tasks' # tasks =>
              \/ \E r \in tasksPending : loadTasksResolved(r)
              \/ \E r \in deletePending :
                     /\ r.phase = "answered"
                     /\ r.item \notin Range(serverTasks)
                     /\ deleteTaskResolved(r)
       /\ events' # events =>
              \/ \E r \in eventsPending : loadEventsResolved(r)
              \/ \E r \in deleteEventPending :
                     /\ r.phase = "answered"
                     /\ r.item \notin Range(serverEvents)
                     /\ deleteEventResolved(r)]_vars

\* The delete of a task that is in the list has failed: both tasks are still
\* shown and error holds the failure's message.
DeleteFailedWitness ==
    /\ lastSettled.op = "deleteTask"
    /\ lastSettled.threw
    /\ lastSettled.err.isError
    /\ tasksError = "Network Error"
    /\ tasks = <<1, 2>>

\* C14 as stated: loading is true in every state in which at least one
\* loadTasks request is in flight.
LoadingWhileInFlight == tasksPending # {} => tasksLoading

\* C15 as stated: when the last loadTasks in flight resolves and the most
\* recently issued call has got its response, the list is that response.
LatestResponseWins ==
    [][\A r \in tasksPending :
         (loadTasksResolved(r) /\ tasksPending' = {} /\ latest'["loadTasks"] # <<>>) =>
           tasks' = latest'["loadTasks"][1]]_vars

\* C16 as stated: a task whose deleteTask has succeeded is not in the list
\* again (no task is created here, so a response that holds it is one of a
\* loadTasks issued before the deletion).
DeletedStaysDeleted == \A id \in deleted : id \notin Range(tasks)

\* C17: checkAuth never throws.  When the auth request succeeds, authenticated
\* becomes its result and the result is returned; when it fails, authenticated
\* becomes false and false is returned; either way loading is false when the
\* call has settled.  loading is true from the start until the first checkAuth
\* has settled.
CheckAuthSettles ==
    /\ [](authReturned = <<>> => authLoading)
    /\ [][/\ \A id \in authPending, isAuth \in BOOLEAN :
               checkAuthResolved(id, isAuth) =>
                 /\ authState' = isAuth
                 /\ authReturned' = <<isAuth>>
                 /\ ~authLoading'
                 /\ lastSettled' = [op |-> "checkAuth", threw |-> FALSE, err |-> NoError]
          /\ \A id \in authPending :
               checkAuthRejected(id) =>
                 /\ authState' = FALSE
                 /\ authReturned' = <<FALSE>>
                 /\ ~authLoading'
                 /\ lastSettled' = [op |-> "checkAuth", threw |-> FALSE, err |-> NoError]]_vars

\* Two checkAuth calls have settled, the one that settled last with false:
\* authenticated is false, false was returned and loading is over.
AuthLostWitness ==
    /\ calls["checkAuth"] = 2
    /\ authPending = {}
    /\ authReturned = <<FALSE>>
    /\ ~authState
    /\ ~authLoading

\* What C18 says of the writing of .env and of the token prompt: .env is written
\* only when python3 and pip3 were found, requirements.txt was installed,
\* client_secret.json exists and the token entered is not empty; a script that
\* has failed has written no .env; the prompt's loop is left with a token that
\* is not empty, and inside it nothing but empty input was read.
EnvWrittenLast ==
    /\ envFile # <<>> =>
          /\ python3 /\ pip3 /\ requirementsTxt /\ installed /\ clientSecretJson
          /\ envFile[1] # <<>>
          /\ exitStatus = <<0>>
    /\ (~Running /\ exitStatus # <<0>>) => envFile = <<>>
    /\ shPc = "env" => TODOIST_TOKEN # <<>>
    /\ shPc = "token" => TODOIST_TOKEN = <<>>

\* C18 as stated: .env is written last, and every run that ends without writing
\* it has exit status 1.
SetupFailsWithStatusOne ==
    /\ EnvWrittenLast
    /\ (~Running /\ envFile = <<>>) => exitStatus = <<1>>

\* C18 amended: .env is written last; a missing python3, pip3, requirements.txt
\* or client_secret.json, the answer no and a closed stdin exit with status 1; a
\* failing pip3 install ends the script with pip3's own status, which is not 0
\* and need not be 1.
SetupFailsWithoutEnv ==
    /\ EnvWrittenLast
    /\ (~Running /\ envFile = <<>>) =>
          \/ exitStatus = <<1>>
          \/ /\ shPc = "install"
             /\ python3 /\ pip3 /\ requirementsTxt
             /\ exitStatus[1] \in PipStatuses \ {0}
    /\ (~Running /\ shPc \in {"python3", "pip3", "confirm", "token"}) => exitStatus = <<1>>
    /\ (~Running /\ shPc = "install" /\ ~requirementsTxt) => exitStatus = <<1>>

\* client_secret.json was missing, the question was answered with yes, a prompt
\* was repeated, and .env holds the token entered at last.
EnvWrittenWitness ==
    /\ envFile = <<TODOIST_TOKEN>>
    /\ TODOIST_TOKEN = <<"t", "k">>
    /\ YnCase(yn) = "yes"
    /\ prompts > 0
    /\ exitStatus = <<0>>

====
